---------------------------- MODULE Spec2Model ----------------------------
(***************************************************************************)
(* A model of pyosm, src/src/pyosm/osm.py: the request/cache gateway        *)
(* (Accessor), the credential holder (Authorisor), the record wrappers     *)
(* (OSMObject, Member, Members) and the construction of a Section.         *)
(*                                                                         *)
(* Python strings are sequences of one-character strings, so that          *)
(* urllib.urlencode, repr and the cache key's concatenation are computed   *)
(* character by character.  Python values are tagged records.              *)
(***************************************************************************)
EXTENDS Integers, Sequences, FiniteSets, TLC

(***************************************************************************)
(* Bounds of the model.                                                    *)
(***************************************************************************)
\* the number of gateway calls one behaviour may make
MaxCalls == 2

\* the number of wrapper operations (set, delete, new_member, save) one
\* behaviour may make
MaxOps == 3

(***************************************************************************)
(* Python values.                                                          *)
(***************************************************************************)
PyNone == [t |-> "None", s |-> <<>>, n |-> 0]

PyStr(s) == [t |-> "str", s |-> s, n |-> 0]

PyInt(n) == [t |-> "int", s |-> <<>>, n |-> n]

\* {} as a value inside an answer
PyDict0 == [t |-> "dict", s |-> <<>>, n |-> 0]

\* a list of dicts as a value inside an answer: the n-th of ListItems
PyList(n) == [t |-> "list", s |-> <<>>, n |-> n]

\* the decimal digits of a small natural number
Digits == <<"0", "1", "2", "3", "4", "5", "6", "7", "8", "9">>

\* str(v) as urllib.urlencode applies it to every key and value
Str(v) ==
    CASE v.t = "None" -> <<"N", "o", "n", "e">>
      [] v.t = "str" -> v.s
      [] v.t = "int" -> <<Digits[v.n + 1]>>

\* characters urllib.quote_plus leaves alone
SafeChars ==
    {"a", "b", "c", "d", "e", "f", "g", "h", "i", "j", "k", "l", "m", "n",
     "o", "p", "q", "r", "s", "t", "u", "v", "w", "x", "y", "z",
     "N", "0", "1", "2", "3", "4", "5", "6", "7", "8", "9", "_", ".", "-"}

\* urllib.quote_plus on one character
QuoteChar(c) ==
    CASE c \in SafeChars -> <<c>>
      [] c = " " -> <<"+">>
      [] c = "'" -> <<"%", "2", "7">>
      [] c = "&" -> <<"%", "2", "6">>
      [] c = "=" -> <<"%", "3", "D">>
      [] c = "+" -> <<"%", "2", "B">>
      [] c = "?" -> <<"%", "3", "F">>
      [] c = "/" -> <<"%", "2", "F">>
      [] c = ":" -> <<"%", "3", "A">>
      [] OTHER -> <<"%", "4", "0">>

RECURSIVE QuotePlus(_)
QuotePlus(s) ==
    IF s = <<>> THEN <<>> ELSE QuoteChar(Head(s)) \o QuotePlus(Tail(s))

(***************************************************************************)
(* Parameter names.                                                        *)
(***************************************************************************)
K_apiid == <<"a", "p", "i", "i", "d">>
K_token == <<"t", "o", "k", "e", "n">>
K_userid == <<"u", "s", "e", "r", "i", "d">>
K_secret == <<"s", "e", "c", "r", "e", "t">>
K_email == <<"e", "m", "a", "i", "l">>
K_password == <<"p", "a", "s", "s", "w", "o", "r", "d">>
K_x == <<"x">>

\* keys of a member record, and the parameters Member.save() sends
K_scoutid == <<"s", "c", "o", "u", "t", "i", "d">>
K_firstname == <<"f", "i", "r", "s", "t", "n", "a", "m", "e">>
K_lastname == <<"l", "a", "s", "t", "n", "a", "m", "e">>
K_dob == <<"d", "o", "b">>
K_started == <<"s", "t", "a", "r", "t", "e", "d">>
K_patrolid == <<"p", "a", "t", "r", "o", "l", "i", "d">>
K_patrolleader ==
    <<"p", "a", "t", "r", "o", "l", "l", "e", "a", "d", "e", "r">>
K_phone1 == <<"p", "h", "o", "n", "e", "1">>
K_email1 == <<"e", "m", "a", "i", "l", "1">>
K_custom1 == <<"c", "u", "s", "t", "o", "m", "1">>
K_custom2 == <<"c", "u", "s", "t", "o", "m", "2">>
K_yrs == <<"y", "r", "s">>
K_startedsection ==
    <<"s", "t", "a", "r", "t", "e", "d", "s", "e", "c", "t", "i", "o",
    "n">>
K_sectionid == <<"s", "e", "c", "t", "i", "o", "n", "i", "d">>
K_column == <<"c", "o", "l", "u", "m", "n">>
K_value == <<"v", "a", "l", "u", "e">>
\* keys of the records Section.__init__ reads
K_section == <<"s", "e", "c", "t", "i", "o", "n">>
K_termid == <<"t", "e", "r", "m", "i", "d">>
K_startdate == <<"s", "t", "a", "r", "t", "d", "a", "t", "e">>
K_enddate == <<"e", "n", "d", "d", "a", "t", "e">>
K_badgeOrder == <<"b", "a", "d", "g", "e", "O", "r", "d", "e", "r">>
K_details == <<"d", "e", "t", "a", "i", "l", "s">>
K_stock == <<"s", "t", "o", "c", "k">>
K_structure == <<"s", "t", "r", "u", "c", "t", "u", "r", "e">>
K_identifier == <<"i", "d", "e", "n", "t", "i", "f", "i", "e", "r">>
K_items == <<"i", "t", "e", "m", "s">>
\* the sectionid of the model's section, as a key of the getTerms answer
K_3 == <<"3">>
\* a key no record and no column map holds
K_zz == <<"z", "z">>

\* the keys of Members.DEFAULT_DICT, as the class statement lists them
DefaultKeys ==
    <<<<"a", "d", "d", "r", "e", "s", "s">>,
      <<"a", "d", "d", "r", "e", "s", "s", "2">>, <<"a", "g", "e">>,
      K_custom1, K_custom2, <<"c", "u", "s", "t", "o", "m", "3">>,
      <<"c", "u", "s", "t", "o", "m", "4">>,
      <<"c", "u", "s", "t", "o", "m", "5">>,
      <<"c", "u", "s", "t", "o", "m", "6">>,
      <<"c", "u", "s", "t", "o", "m", "7">>,
      <<"c", "u", "s", "t", "o", "m", "8">>,
      <<"c", "u", "s", "t", "o", "m", "9">>, K_dob, K_email1,
      <<"e", "m", "a", "i", "l", "2">>, <<"e", "m", "a", "i", "l", "3">>,
      <<"e", "m", "a", "i", "l", "4">>,
      <<"e", "t", "h", "n", "i", "c", "i", "t", "y">>, K_firstname,
      <<"j", "o", "i", "n", "e", "d">>,
      <<"j", "o", "i", "n", "i", "n", "g", "_", "i", "n", "_", "y", "r", "s">>,
      K_lastname, <<"m", "e", "d", "i", "c", "a", "l">>,
      <<"n", "o", "t", "e", "s">>, <<"p", "a", "r", "e", "n", "t", "s">>,
      <<"p", "a", "t", "r", "o", "l">>, K_patrolid, K_patrolleader,
      K_phone1, <<"p", "h", "o", "n", "e", "2">>,
      <<"p", "h", "o", "n", "e", "3">>, <<"p", "h", "o", "n", "e", "4">>,
      <<"r", "e", "l", "i", "g", "i", "o", "n">>,
      <<"s", "c", "h", "o", "o", "l">>, K_scoutid, K_started,
      <<"s", "u", "b", "s">>, <<"t", "y", "p", "e">>, K_yrs>>

\* the display names the section's column map gives custom1 and custom2,
\* as sectionConfig[columnNames] holds them and with their spaces removed
RAW_mycol == <<"m", "y", " ", "c", "o", "l">>
RAW_bc == <<"b", " ", "c">>
D_mycol == <<"m", "y", "c", "o", "l">>
D_bc == <<"b", "c">>

\* the order in which a dict of these keys is iterated: a fixed function of
\* the key set
ParamOrder ==
    <<K_apiid, K_token, K_userid, K_secret, K_email, K_password, K_x,
      K_sectionid, K_column, K_value, K_startedsection, D_mycol, D_bc,
      K_zz>> \o DefaultKeys

\* dict.update: the entries of b replace and extend those of a
Update(a, b) == b @@ a

RECURSIVE EncodeFrom(_, _, _)
EncodeFrom(values, i, first) ==
    IF i > Len(ParamOrder) THEN <<>>
    ELSE IF ParamOrder[i] \in DOMAIN values
         THEN (IF first THEN <<>> ELSE <<"&">>)
              \o QuotePlus(ParamOrder[i]) \o <<"=">>
              \o QuotePlus(Str(values[ParamOrder[i]]))
              \o EncodeFrom(values, i + 1, FALSE)
         ELSE EncodeFrom(values, i + 1, first)

\* urllib.urlencode(values)
urlencode(values) == EncodeFrom(values, 1, TRUE)

\* repr() of a str holding neither quote nor backslash
Repr(data) == <<"'">> \o data \o <<"'">>


(***************************************************************************)
(* Decoded JSON values: a dict maps keys to Python values, a list holds    *)
(* Python values.  NoneObj is Python's None where an object is expected.   *)
(***************************************************************************)
Dict(f) == [t |-> "dict", d |-> f, l |-> <<>>]

List(l) == [t |-> "list", d |-> <<>>, l |-> l]

NoneObj == [t |-> "None", d |-> <<>>, l |-> <<>>]

\* bool(obj): None, {} and [] are false
Truthy(obj) ==
    CASE obj.t = "None" -> FALSE
      [] obj.t = "dict" -> DOMAIN obj.d # {}
      [] obj.t = "list" -> obj.l # <<>>

\* k in obj: a key of a dict, an element of a list
Contains(obj, k) ==
    CASE obj.t = "dict" -> k \in DOMAIN obj.d
      [] obj.t = "list" -> \E i \in DOMAIN obj.l : obj.l[i] = PyStr(k)
      [] OTHER -> FALSE

K_error == <<"e", "r", "r", "o", "r">>
K_err == <<"e", "r", "r">>

(***************************************************************************)
(* Response bodies the service may send.                                   *)
(***************************************************************************)
\* an empty body
B_empty == <<>>

\* a plain-text error string
B_text ==
    <<"I", "n", "v", "a", "l", "i", "d">>

\* {}
B_dict0 == <<"{", "}">>

\* []
B_list0 == <<"[", "]">>

\* {"error":"x"}
B_error ==
    <<"{", "\"", "e", "r", "r", "o", "r", "\"", ":", "\"", "x", "\"", "}">>

\* {"err":"y"}
B_err ==
    <<"{", "\"", "e", "r", "r", "\"", ":", "\"", "y", "\"", "}">>

\* {"error":"x","err":"y"}
B_both ==
    <<"{", "\"", "e", "r", "r", "o", "r", "\"", ":", "\"", "x", "\"", ",",
      "\"", "e", "r", "r", "\"", ":", "\"", "y", "\"", "}">>

\* {"userid":"u"}
B_user ==
    <<"{", "\"", "u", "s", "e", "r", "i", "d", "\"", ":", "\"", "u", "\"",
      "}">>

\* {"userid":"u","secret":"s"}
B_creds ==
    <<"{", "\"", "u", "s", "e", "r", "i", "d", "\"", ":", "\"", "u", "\"",
      ",", "\"", "s", "e", "c", "r", "e", "t", "\"", ":", "\"", "s", "\"",
      "}">>

\* ["error"]
B_errlist ==
    <<"[", "\"", "e", "r", "r", "o", "r", "\"", "]">>

\* {"scoutid":"7"}: the answer to a newMember call
B_scoutid ==
    <<"{", "\"", "s", "c", "o", "u", "t", "i", "d", "\"", ":", "\"", "7",
    "\"", "}">>

\* {"custom1":"a","custom2":"a"}: the answer to an updateMember call
B_echo ==
    <<"{", "\"", "c", "u", "s", "t", "o", "m", "1", "\"", ":", "\"", "a",
    "\"", ",", "\"", "c", "u", "s", "t", "o", "m", "2", "\"", ":", "\"",
    "a", "\"", "}">>

\* the getTerms answer: {"3":[{"termid":"1","startdate":"2001-01-
\* 02","enddate":"2001-01-04"},{"termid":"2","startdate":"2001-01-
\* 03","enddate":"2001-01-05"}]}
B_terms ==
    <<"{", "\"", "3", "\"", ":", "[", "{", "\"", "t", "e", "r", "m", "i",
    "d", "\"", ":", "\"", "1", "\"", ",", "\"", "s", "t", "a", "r", "t",
    "d", "a", "t", "e", "\"", ":", "\"", "2", "0", "0", "1", "-", "0",
    "1", "-", "0", "2", "\"", ",", "\"", "e", "n", "d", "d", "a", "t",
    "e", "\"", ":", "\"", "2", "0", "0", "1", "-", "0", "1", "-", "0",
    "4", "\"", "}", ",", "{", "\"", "t", "e", "r", "m", "i", "d", "\"",
    ":", "\"", "2", "\"", ",", "\"", "s", "t", "a", "r", "t", "d", "a",
    "t", "e", "\"", ":", "\"", "2", "0", "0", "1", "-", "0", "1", "-",
    "0", "3", "\"", ",", "\"", "e", "n", "d", "d", "a", "t", "e", "\"",
    ":", "\"", "2", "0", "0", "1", "-", "0", "1", "-", "0", "5", "\"",
    "}", "]", "}">>

\* a getInitialBadges answer:
\* {"badgeOrder":"","details":{},"stock":{},"structure":{}}
B_badges ==
    <<"{", "\"", "b", "a", "d", "g", "e", "O", "r", "d", "e", "r", "\"",
    ":", "\"", "\"", ",", "\"", "d", "e", "t", "a", "i", "l", "s", "\"",
    ":", "{", "}", ",", "\"", "s", "t", "o", "c", "k", "\"", ":", "{",
    "}", ",", "\"", "s", "t", "r", "u", "c", "t", "u", "r", "e", "\"",
    ":", "{", "}", "}">>

\* the getUserDetails answer: {"identifier":"scoutid","items":[{"scoutid":"
\* 5","firstname":"f","custom1":"","custom2":""}]}
B_members ==
    <<"{", "\"", "i", "d", "e", "n", "t", "i", "f", "i", "e", "r", "\"",
    ":", "\"", "s", "c", "o", "u", "t", "i", "d", "\"", ",", "\"", "i",
    "t", "e", "m", "s", "\"", ":", "[", "{", "\"", "s", "c", "o", "u",
    "t", "i", "d", "\"", ":", "\"", "5", "\"", ",", "\"", "f", "i", "r",
    "s", "t", "n", "a", "m", "e", "\"", ":", "\"", "f", "\"", ",", "\"",
    "c", "u", "s", "t", "o", "m", "1", "\"", ":", "\"", "\"", ",", "\"",
    "c", "u", "s", "t", "o", "m", "2", "\"", ":", "\"", "\"", "}", "]",
    "}">>

\* {x : not JSON, though it starts like JSON
B_bad == <<"{", "x">>

Bodies ==
    {B_empty, B_text, B_dict0, B_list0, B_error, B_err, B_both, B_user,
     B_creds, B_errlist, B_bad}

\* json.loads(result): the decoded value, or ValueError
json_loads(result) ==
    CASE result = B_dict0 -> [ok |-> TRUE, obj |-> Dict(<<>>)]
      [] result = B_list0 -> [ok |-> TRUE, obj |-> List(<<>>)]
      [] result = B_error ->
           [ok |-> TRUE, obj |-> Dict(K_error :> PyStr(<<"x">>))]
      [] result = B_err ->
           [ok |-> TRUE, obj |-> Dict(K_err :> PyStr(<<"y">>))]
      [] result = B_both ->
           [ok |-> TRUE,
            obj |-> Dict((K_error :> PyStr(<<"x">>))
                         @@ (K_err :> PyStr(<<"y">>)))]
      [] result = B_user ->
           [ok |-> TRUE, obj |-> Dict(K_userid :> PyStr(<<"u">>))]
      [] result = B_creds ->
           [ok |-> TRUE,
            obj |-> Dict((K_userid :> PyStr(<<"u">>))
                         @@ (K_secret :> PyStr(<<"s">>)))]
      [] result = B_errlist ->
           [ok |-> TRUE, obj |-> List(<<PyStr(K_error)>>)]
      [] result = B_scoutid ->
           [ok |-> TRUE, obj |-> Dict(K_scoutid :> PyStr(<<"7">>))]
      [] result = B_echo ->
           [ok |-> TRUE,
            obj |-> Dict((K_custom1 :> PyStr(<<"a">>))
                         @@ (K_custom2 :> PyStr(<<"a">>)))]
      [] result = B_terms -> [ok |-> TRUE, obj |-> Dict(K_3 :> PyList(1))]
      [] result = B_badges ->
           [ok |-> TRUE,
            obj |-> Dict((K_badgeOrder :> PyStr(<<>>))
                         @@ (K_details :> PyDict0) @@ (K_stock :> PyDict0)
                         @@ (K_structure :> PyDict0))]
      [] result = B_members ->
           [ok |-> TRUE,
            obj |-> Dict((K_identifier :> PyStr(K_scoutid))
                         @@ (K_items :> PyList(2)))]
      [] OTHER -> [ok |-> FALSE, obj |-> NoneObj]

\* what urllib2.urlopen(req) does: the transport fails, or a body arrives
Responses ==
    {[kind |-> "fail", body |-> <<>>]}
    \cup {[kind |-> "body", body |-> b] : b \in Bodies}

(***************************************************************************)
(* Accessor                                                                *)
(***************************************************************************)
BASE_URL ==
    <<"h", "t", "t", "p", "s", ":", "/", "/", "w", "w", "w", ".", "o", "n",
      "l", "i", "n", "e", "s", "c", "o", "u", "t", "m", "a", "n", "a", "g",
      "e", "r", ".", "c", "o", ".", "u", "k", "/">>

\* "users.php?action=authorise"
AUTHORISE_QUERY ==
    <<"u", "s", "e", "r", "s", ".", "p", "h", "p", "?", "a", "c", "t", "i",
      "o", "n", "=", "a", "u", "t", "h", "o", "r", "i", "s", "e">>

\* the class attribute __cache__ = {}
EmptyCache == <<>>

\* a clear that rebinds nothing: the entries stay
clear_cache_keeps(c) == c

\* Accessor.clear_cache
clear_cache(c) == EmptyCache

\* a key that leaves the endpoint out
CacheKey_dataOnly(url, data) == Repr(data)

\* the key of __cache_lookup__ and __cache_set__: url + repr(data)
CacheKey(url, data) == url \o Repr(data)

\* Accessor.__cache_lookup__: the memoized value, or None
cache_lookup(c, url, data) ==
    LET k == CacheKey(url, data)
    IN  IF k \in DOMAIN c THEN c[k] ELSE NoneObj

\* __cache_set__, were it to store nothing
cache_set_skips(c, url, data, value) == c

\* Accessor.__cache_set__
cache_set(c, url, data, value) == (CacheKey(url, data) :> value) @@ c

\* the fields argument: None, or a dict
NoFields == [isNone |-> TRUE, d |-> <<>>]

Fields(f) == [isNone |-> FALSE, d |-> f]

\* the parameter set of a request: apiid and token, userid and secret
\* unless authorising, then the caller's fields
BuildValues(a, fields, authorising) ==
    LET v0 == (K_apiid :> a.apiid) @@ (K_token :> a.token)
        v1 == IF ~authorising
              THEN Update(v0, (K_userid :> a.userid) @@ (K_secret :> a.secret))
              ELSE v0
    IN  IF ~fields.isNone /\ DOMAIN fields.d # {}
        THEN Update(v1, fields.d)
        ELSE v1

\* `if not obj`: whether the looked-up value sends the call to the network
IsMiss(obj) == ~Truthy(obj)

\* the outcome of a call that raised
Raised(exc, url, values, payload) ==
    [outcome |-> "raise", exc |-> exc, excUrl |-> url, excValues |-> values,
     payload |-> payload, result |-> NoneObj]

\* the outcome of a call that returned obj
Returned(obj) ==
    [outcome |-> "return", exc |-> "", excUrl |-> <<>>, excValues |-> <<>>,
     payload |-> PyNone, result |-> obj]

\* a transport failure wrapped into the gateway's own exception
TransportFailure_wrapped(url, values) ==
    Raised("OSMException", url, values, PyNone)

\* urllib2.urlopen raising: the exception passes through __call__
TransportFailure(url, values) == Raised("URLError", <<>>, <<>>, PyNone)

\* no test of the first character: every non-empty body goes to json.loads
FirstCharTest_none(result) ==
    IF Len(result) = 0 THEN "IndexError" ELSE "json"

\* an empty body treated like a body that does not start like JSON
FirstCharTest_emptyAsText(result) ==
    IF Len(result) = 0 THEN "OSMException"
    ELSE IF result[1] \notin {"[", "{"} THEN "OSMException"
    ELSE "json"

\* the crude test of the body's first character: result[0] of an empty body
\* raises IndexError, which is logged and raised again
FirstCharTest(result) ==
    IF Len(result) = 0 THEN "IndexError"
    ELSE IF result[1] \notin {"[", "{"} THEN "OSMException"
    ELSE "json"

\* only the 'error' test
ErrorField_errorOnly(obj) ==
    IF Contains(obj, K_error) THEN K_error ELSE <<>>

\* the two tests of the decoded object, 'error' before 'err'; obj['error'] of
\* a list raises TypeError
ErrorField(obj) ==
    IF Contains(obj, K_error) THEN K_error
    ELSE IF Contains(obj, K_err) THEN K_err
    ELSE <<>>

\* the miss branch of __call__, from the response on: the outcome, whether
\* json.loads ran, and the cache afterwards
Fetch(c, url, values, data, resp) ==
    IF resp.kind = "fail"
    THEN [out |-> TransportFailure(url, values), json |-> FALSE, cache |-> c]
    ELSE LET result == resp.body
             test == FirstCharTest(result)
         IN  IF test = "IndexError"
             THEN [out |-> Raised("IndexError", <<>>, <<>>, PyNone),
                   json |-> FALSE, cache |-> c]
             ELSE IF test = "OSMException"
             THEN [out |-> Raised("OSMException", url, values, PyStr(result)),
                   json |-> FALSE, cache |-> c]
             ELSE LET dec == json_loads(result)
                      obj == dec.obj
                      f == ErrorField(obj)
                  IN  IF ~dec.ok
                      THEN [out |-> Raised("ValueError", <<>>, <<>>, PyNone),
                            json |-> TRUE, cache |-> c]
                      ELSE IF f # <<>>
                      THEN [out |-> IF obj.t = "dict"
                                    THEN Raised("OSMException", url, values,
                                                obj.d[f])
                                    ELSE Raised("TypeError", <<>>, <<>>, PyNone),
                            json |-> TRUE, cache |-> c]
                      ELSE [out |-> Returned(obj), json |-> TRUE,
                            cache |-> cache_set(c, url, data, obj)]

\* Accessor.__call__(query, fields, authorising, clear_cache) on the class
\* cache c0 with credential holder a, the network answering resp
AccessorCall(c0, a, query, fields, authorising, clear, resp) ==
    LET c1 == IF clear THEN clear_cache(c0) ELSE c0
        url == BASE_URL \o query
        values == BuildValues(a, fields, authorising)
        data == urlencode(values)
        obj == cache_lookup(c1, url, data)
        req == [url |-> url, values |-> values, data |-> data,
                key |-> CacheKey(url, data), authorising |-> authorising,
                clear |-> clear, atLookup |-> c1,
                evicted |-> DOMAIN c0 \ DOMAIN c1]
    IN  IF IsMiss(obj)
        THEN LET r == Fetch(c1, url, values, data, resp)
             IN  [req |-> req, hit |-> FALSE, net |-> 1, resp |-> resp,
                  json |-> r.json, out |-> r.out, cache |-> r.cache]
        ELSE [req |-> req, hit |-> TRUE, net |-> 0,
              resp |-> [kind |-> "none", body |-> <<>>],
              json |-> FALSE, out |-> Returned(obj), cache |-> c1]

(***************************************************************************)
(* Authorisor                                                              *)
(***************************************************************************)
\* Authorisor.__init__(apiid, token)
NewAuthorisor(apiid, token) ==
    [apiid |-> apiid, token |-> token, userid |-> PyNone, secret |-> PyNone]

\* the two statements after the gateway call of Authorisor.authorise:
\* self.userid = creds['userid']; self.secret = creds['secret'].  A list has
\* no string index (TypeError); a missing key raises KeyError, the second
\* one after userid was stored.
StoreCreds(a, creds) ==
    IF creds.t # "dict"
    THEN [auth |-> a, exc |-> "TypeError"]
    ELSE IF K_userid \notin DOMAIN creds.d
    THEN [auth |-> a, exc |-> "KeyError"]
    ELSE IF K_secret \notin DOMAIN creds.d
    THEN [auth |-> [a EXCEPT !.userid = creds.d[K_userid]], exc |-> "KeyError"]
    ELSE [auth |-> [a EXCEPT !.userid = creds.d[K_userid],
                             !.secret = creds.d[K_secret]],
          exc |-> ""]

\* src.readline() for the i-th time: the line with its terminator, '' at the
\* end of the file
readline(src, i) == IF i <= Len(src) THEN src[i] ELSE <<>>

\* line[:-1]
DropLast(line) == SubSeq(line, 1, Len(line) - 1)

\* Authorisor.load_from_file
load_from_file(a, src) ==
    [a EXCEPT !.userid = PyStr(DropLast(readline(src, 1))),
              !.secret = PyStr(DropLast(readline(src, 2)))]

(***************************************************************************)
(* The inputs of the model.                                                *)
(***************************************************************************)
\* the application's identity
APIID == PyStr(<<"a">>)

TOKEN == PyStr(<<"t">>)

Q_q == <<"q">>

Q_r == <<"r">>

F_x_str == Fields(K_x :> PyStr(<<"0">>))

F_x_int == Fields(K_x :> PyInt(0))

F_userid == Fields(K_userid :> PyStr(<<"e">>))

\* the gateway calls a caller makes: endpoint, fields, clear_cache
Requests ==
    {[query |-> Q_q, fields |-> NoFields, clear |-> FALSE],
     [query |-> Q_q, fields |-> NoFields, clear |-> TRUE],
     [query |-> Q_r, fields |-> NoFields, clear |-> FALSE],
     [query |-> Q_q, fields |-> F_x_str, clear |-> FALSE],
     [query |-> Q_q, fields |-> F_x_int, clear |-> FALSE],
     [query |-> Q_q, fields |-> F_userid, clear |-> FALSE]}

Emails == {<<"m">>}

Passwords == {<<"p">>}

\* a credentials file, as its lines
F_creds == << <<"u", "\n">>, <<"s", "\n">> >>

Files == {F_creds}

(***************************************************************************)
(* OSMObject: a wrapper around one record, a dict.  An operation gives the *)
(* exception it raised ("" when it returned), the value it returned, and   *)
(* the record and the change list it leaves.  An OSMObject has no change   *)
(* list; its operations hand back the one they are given.                  *)
(***************************************************************************)
Gave(exc, value, rec, changed) ==
    [exc |-> exc, value |-> value, rec |-> rec, changed |-> changed]

\* del d[key] on a dict holding key
DictDel(rec, key) == [k \in DOMAIN rec \ {key} |-> rec[k]]

\* key in list
InList(key, list) == \E i \in DOMAIN list : list[i] = key

\* OSMObject.__getitem__
OSMObject_getitem(rec, changed, key) ==
    IF key \in DOMAIN rec
    THEN Gave("", rec[key], rec, changed)
    ELSE Gave("KeyError", PyNone, rec, changed)

\* OSMObject.__setitem__: the assignment to a dict stores the key whether or
\* not the dict held it and raises nothing, so the except clause never runs
OSMObject_setitem(rec, changed, key, value) ==
    Gave("", PyNone, (key :> value) @@ rec, changed)

\* OSMObject.__delitem__
OSMObject_delitem(rec, changed, key) ==
    IF key \in DOMAIN rec
    THEN Gave("", PyNone, DictDel(rec, key), changed)
    ELSE Gave("KeyError", PyNone, rec, changed)

(***************************************************************************)
(* Member                                                                  *)
(***************************************************************************)
\* record['sectionConfig']['columnNames'] of the section
COLUMN_NAMES == (K_custom1 :> RAW_mycol) @@ (K_custom2 :> RAW_bc)

\* v.replace(' ', '')
RECURSIVE StripSpaces(_)
StripSpaces(s) ==
    IF s = <<>> THEN <<>>
    ELSE IF Head(s) = " " THEN StripSpaces(Tail(s))
    ELSE <<Head(s)>> \o StripSpaces(Tail(s))

\* Member.__init__: the column map with the spaces of its display names
\* removed, storage key to display name
column_map == [k \in DOMAIN COLUMN_NAMES |-> StripSpaces(COLUMN_NAMES[k])]

\* Member.__init__: the reversed pairs, display name to storage key
reverse_column_map ==
    [d \in {column_map[k] : k \in DOMAIN column_map} |->
        CHOOSE k \in DOMAIN column_map : column_map[k] = d]

\* Member.__getitem__: the literal key, then the key as a display name
Member_getitem(rec, changed, key) ==
    IF key \in DOMAIN rec
    THEN Gave("", rec[key], rec, changed)
    ELSE IF key \in DOMAIN reverse_column_map
            /\ reverse_column_map[key] \in DOMAIN rec
    THEN Gave("", rec[reverse_column_map[key]], rec, changed)
    ELSE Gave("KeyError", PyNone, rec, changed)

\* Member.__setitem__: the assignment under the literal key succeeds on a
\* dict, so the key is stored and recorded as given and the except clause,
\* which would resolve a display name, never runs
Member_setitem(rec, changed, key, value) ==
    Gave("", PyNone, (key :> value) @@ rec,
         IF InList(key, changed) THEN changed ELSE Append(changed, key))

\* the endpoints of Member.save()
CREATE_QUERY ==
    <<"u", "s", "e", "r", "s", ".", "p", "h", "p", "?", "a", "c", "t",
    "i", "o", "n", "=", "n", "e", "w", "M", "e", "m", "b", "e", "r">>

UPDATE_QUERY ==
    <<"u", "s", "e", "r", "s", ".", "p", "h", "p", "?", "a", "c", "t",
    "i", "o", "n", "=", "u", "p", "d", "a", "t", "e", "M", "e", "m", "b",
    "e", "r", "&", "d", "a", "t", "e", "F", "o", "r", "m", "a", "t", "=",
    "g", "e", "n", "e", "r", "i", "c">>

\* the loop fields[key] = self._record[key] over the change list: a changed
\* key that the record no longer holds raises KeyError
SaveFields(rec, changed) ==
    IF \E i \in DOMAIN changed : changed[i] \notin DOMAIN rec
    THEN [exc |-> "KeyError", d |-> <<>>]
    ELSE [exc |-> "",
          d |-> [k \in {changed[i] : i \in DOMAIN changed} |-> rec[k]]]

\* record[key] on the object a gateway call returned
Subscript(obj, key) ==
    IF obj.t = "dict"
    THEN IF key \in DOMAIN obj.d
         THEN [exc |-> "", value |-> obj.d[key]]
         ELSE [exc |-> "KeyError", value |-> PyNone]
    ELSE [exc |-> "TypeError", value |-> PyNone]

\* what save() gives: the exception it raised ("" when it returned), what
\* it returned ("None", "True" or "False"), the record and the change list
\* of the member, the cache, and the gateway calls it made, in order
Saved(exc, ret, rec, changed, c, log) ==
    [exc |-> exc, ret |-> ret, rec |-> rec, changed |-> changed,
     cache |-> c, log |-> log]

\* save_create, were the create call made without clear_cache=True
save_create_noClear(rec, changed, sec, c, a, resp) ==
    LET f == SaveFields(rec, changed)
        sid == OSMObject_getitem(sec, <<>>, K_sectionid)
        r == AccessorCall(c, a, CREATE_QUERY,
                          Fields((K_sectionid :> sid.value) @@ f.d),
                          FALSE, FALSE, resp)
        got == Subscript(r.out.result, K_scoutid)
        s == Member_setitem(rec, changed, K_scoutid, got.value)
    IN  IF f.exc # "" THEN Saved(f.exc, "None", rec, changed, c, <<>>)
        ELSE IF sid.exc # ""
        THEN Saved(sid.exc, "None", rec, changed, c, <<>>)
        ELSE IF r.out.outcome = "raise"
        THEN Saved(r.out.exc, "None", rec, changed, r.cache, <<r>>)
        ELSE IF got.exc # ""
        THEN Saved(got.exc, "None", rec, changed, r.cache, <<r>>)
        ELSE Saved("", "None", s.rec, s.changed, r.cache, <<r>>)

\* Member.save(), the create branch: sec is the record of the section
save_create(rec, changed, sec, c, a, resp) ==
    LET f == SaveFields(rec, changed)
        sid == OSMObject_getitem(sec, <<>>, K_sectionid)
        r == AccessorCall(c, a, CREATE_QUERY,
                          Fields((K_sectionid :> sid.value) @@ f.d),
                          FALSE, TRUE, resp)
        got == Subscript(r.out.result, K_scoutid)
        s == Member_setitem(rec, changed, K_scoutid, got.value)
    IN  IF f.exc # "" THEN Saved(f.exc, "None", rec, changed, c, <<>>)
        ELSE IF sid.exc # ""
        THEN Saved(sid.exc, "None", rec, changed, c, <<>>)
        ELSE IF r.out.outcome = "raise"
        THEN Saved(r.out.exc, "None", rec, changed, r.cache, <<r>>)
        ELSE IF got.exc # ""
        THEN Saved(got.exc, "None", rec, changed, r.cache, <<r>>)
        ELSE Saved("", "None", s.rec, s.changed, r.cache, <<r>>)

\* Member.save(), the update branch from the i-th changed key on: one call
\* per key, in the order of the change list; resps are the answers of the
\* network to the calls, f the fields, result the flag so far
RECURSIVE save_update(_, _, _, _, _, _, _, _, _, _)
save_update(rec, changed, sec, f, i, c, a, resps, result, log) ==
    IF i > Len(changed)
    THEN Saved("", IF result THEN "True" ELSE "False", rec, changed, c, log)
    ELSE
    LET key == changed[i]
        scoutid == Member_getitem(rec, changed, K_scoutid)
        sid == OSMObject_getitem(sec, <<>>, K_sectionid)
        column == reverse_column_map[key]
        r == AccessorCall(c, a, UPDATE_QUERY,
                          Fields((K_scoutid :> scoutid.value)
                                 @@ (K_column :> PyStr(column))
                                 @@ (K_value :> f[key])
                                 @@ (K_sectionid :> sid.value)),
                          FALSE, TRUE, resps[Len(log) + 1])
        got == Subscript(r.out.result, column)
    IN  IF key \notin DOMAIN reverse_column_map
        THEN Saved("KeyError", "None", rec, changed, c, log)
        ELSE IF sid.exc # ""
        THEN Saved(sid.exc, "None", rec, changed, c, log)
        ELSE IF r.out.outcome = "raise"
        THEN Saved(r.out.exc, "None", rec, changed, r.cache, Append(log, r))
        ELSE IF got.exc # ""
        THEN Saved(got.exc, "None", rec, changed, r.cache, Append(log, r))
        ELSE save_update(rec, changed, sec, f, i + 1, r.cache, a, resps,
                         result /\ got.value = f[key], Append(log, r))

\* Member.save()
save(rec, changed, sec, c, a, resps) ==
    LET scoutid == Member_getitem(rec, changed, K_scoutid)
        f == SaveFields(rec, changed)
    IN  IF scoutid.exc # ""
        THEN Saved(scoutid.exc, "None", rec, changed, c, <<>>)
        ELSE IF scoutid.value = PyStr(<<>>)
        THEN save_create(rec, changed, sec, c, a, resps[1])
        ELSE IF f.exc # ""
        THEN Saved(f.exc, "None", rec, changed, c, <<>>)
        ELSE save_update(rec, changed, sec, f.d, 1, c, a, resps, TRUE, <<>>)

(***************************************************************************)
(* Members                                                                 *)
(***************************************************************************)
\* Members.DEFAULT_DICT, one dict held by the class
DEFAULT_DICT ==
    [k \in {DefaultKeys[i] : i \in DOMAIN DefaultKeys} |->
        IF k = K_yrs THEN PyInt(0) ELSE PyStr(<<>>)]

\* the assignments of Members.new_member, in order
NewMemberItems(firstname, lastname, dob, startedsection, started) ==
    << <<K_firstname, firstname>>, <<K_lastname, lastname>>,
       <<K_dob, dob>>, <<K_startedsection, startedsection>>,
       <<K_started, started>>,
       <<K_patrolid, PyStr(<<"-", "1">>)>>,
       <<K_patrolleader, PyStr(<<"0">>)>>,
       <<K_phone1, PyStr(<<>>)>>, <<K_email1, PyStr(<<>>)>> >>

RECURSIVE SetEach(_, _, _, _)
SetEach(rec, changed, items, i) ==
    IF i > Len(items) THEN Gave("", PyNone, rec, changed)
    ELSE LET s == Member_setitem(rec, changed, items[i][1], items[i][2])
         IN  IF s.exc # "" THEN s
             ELSE SetEach(s.rec, s.changed, items, i + 1)

\* Members.new_member: a Member around the record it is given, which is
\* Members.DEFAULT_DICT itself, with an empty change list, then the
\* assignments; what it gives is that record and the member's change list
new_member(rec, firstname, lastname, dob, startedsection, started) ==
    SetEach(rec, <<>>,
            NewMemberItems(firstname, lastname, dob, startedsection,
                           started), 1)

(***************************************************************************)
(* The records and wrappers a program holds, and what it does with them.   *)
(***************************************************************************)
\* the record of the section: the role the service listed
SECTION_RECORD ==
    (K_sectionid :> PyStr(K_3)) @@ (K_section :> PyStr(<<"c">>))

\* the item of the section's getUserDetails answer
ROSTER_ITEM ==
    (K_scoutid :> PyStr(<<"5">>)) @@ (K_firstname :> PyStr(<<"f">>))
    @@ (K_custom1 :> PyStr(<<>>)) @@ (K_custom2 :> PyStr(<<>>))

\* where the records are held: Members.DEFAULT_DICT, the roster item, the
\* record of the section
DefaultRec == 1

RosterRec == 2

SectionRec == 3

\* the wrappers: the Section, the roster's Member, then the Members that
\* new_member() returned, in the order of the calls
SectionObj == 1

RosterObj == 2

V_a == PyStr(<<"a">>)

V_b == PyStr(<<"b">>)

\* the assignments and deletions a caller makes on a wrapper
SectionSets == {<<K_zz, V_a>>, <<K_sectionid, PyStr(K_3)>>}

RosterSets ==
    {<<K_firstname, V_a>>, <<K_custom1, V_b>>, <<D_mycol, V_a>>,
     <<D_mycol, V_b>>, <<D_bc, V_a>>, <<K_zz, V_a>>}

NewSets == {<<K_firstname, V_b>>}

SetsFor(o) ==
    IF o = SectionObj THEN SectionSets
    ELSE IF o = RosterObj THEN RosterSets ELSE NewSets

DelsFor(o) ==
    IF o = SectionObj THEN {K_zz, K_sectionid}
    ELSE IF o = RosterObj THEN {K_firstname, D_mycol, K_zz}
    ELSE {K_firstname}

\* the arguments of new_member()
NewMemberArgs ==
    {[firstname |-> PyStr(<<"g">>), lastname |-> PyStr(<<"l">>),
      dob |-> PyStr(<<"d">>), startedsection |-> PyStr(<<"s">>),
      started |-> PyStr(<<"t">>)]}

\* what the network answers to a call of save()
SaveResponses ==
    {[kind |-> "fail", body |-> <<>>]}
    \cup {[kind |-> "body", body |-> b] :
             b \in {B_scoutid, B_echo, B_error, B_dict0}}

R_echo == [kind |-> "body", body |-> B_echo]

\* the answers to the calls of one save(): save() makes a second call only
\* after an updateMember answer that holds the column
SaveAnswers ==
    {<<x, R_echo>> : x \in SaveResponses}
    \cup {<<R_echo, y>> : y \in SaveResponses}

\* the reads a caller makes beside the member operations
MemberReads ==
    {[query |-> Q_q, fields |-> NoFields, clear |-> FALSE],
     [query |-> Q_q, fields |-> NoFields, clear |-> TRUE]}

MemberReadResponses == {[kind |-> "body", body |-> B_user]}

(***************************************************************************)
(* Term, Badges, Members and Section: construction.                        *)
(***************************************************************************)
DAY_2 == <<"2", "0", "0", "1", "-", "0", "1", "-", "0", "2">>
DAY_3 == <<"2", "0", "0", "1", "-", "0", "1", "-", "0", "3">>
DAY_4 == <<"2", "0", "0", "1", "-", "0", "1", "-", "0", "4">>
DAY_5 == <<"2", "0", "0", "1", "-", "0", "1", "-", "0", "5">>

\* the term dicts of the getTerms answer
TERM_1 ==
    (K_termid :> PyStr(<<"1">>)) @@ (K_startdate :> PyStr(DAY_2))
    @@ (K_enddate :> PyStr(DAY_4))

TERM_2 ==
    (K_termid :> PyStr(<<"2">>)) @@ (K_startdate :> PyStr(DAY_3))
    @@ (K_enddate :> PyStr(DAY_5))

\* the lists of dicts the answers hold: PyList(n) is the n-th
ListItems == << <<TERM_1, TERM_2>>, <<ROSTER_ITEM>> >>

DigitValue(c) == CHOOSE i \in 0..9 : Digits[i + 1] = c

\* the number a string of digits writes
RECURSIVE Number(_)
Number(s) ==
    IF s = <<>> THEN 0
    ELSE 10 * Number(SubSeq(s, 1, Len(s) - 1)) + DigitValue(s[Len(s)])

\* datetime.strptime(s, '%Y-%m-%d'): the midnight that starts the day.  An
\* instant is counted in half days, every month taken as 31 days, which
\* keeps the order of the instants
strptime(s) ==
    2 * ((Number(SubSeq(s, 1, 4)) * 12 + Number(SubSeq(s, 6, 7)) - 1) * 31
         + Number(SubSeq(s, 9, 10)) - 1)

\* Term.__init__
Term(record) ==
    [record |-> record,
     startdate |-> strptime(record[K_startdate].s),
     enddate |-> strptime(record[K_enddate].s)]

\* is_active, were the two comparisons not strict
is_active_inclusive(term, now) ==
    (term.startdate <= now) /\ (term.enddate >= now)

\* Term.is_active, datetime.datetime.now() giving now
is_active(term, now) == (term.startdate < now) /\ (term.enddate > now)

\* OSM.terms(sectionid) on what the getTerms call returned
terms(obj, sectionid) ==
    LET got == Subscript(obj, Str(sectionid))
    IN  IF got.exc # "" THEN [exc |-> got.exc, list |-> <<>>]
        ELSE IF got.value.t # "list"
        THEN [exc |-> "TypeError", list |-> <<>>]
        ELSE [exc |-> "",
              list |-> [i \in DOMAIN ListItems[got.value.n] |->
                           Term(ListItems[got.value.n][i])]]

TERMS_QUERY ==
    <<"a", "p", "i", ".", "p", "h", "p", "?", "a", "c", "t", "i", "o",
    "n", "=", "g", "e", "t", "T", "e", "r", "m", "s">>

T_challenge == <<"c", "h", "a", "l", "l", "e", "n", "g", "e">>
T_activity == <<"a", "c", "t", "i", "v", "i", "t", "y">>
T_staged == <<"s", "t", "a", "g", "e", "d">>
T_core == <<"c", "o", "r", "e">>

\* the badge collections, were activity fetched before challenge
BadgeTypes_activityFirst == <<T_activity, T_challenge, T_staged, T_core>>

\* the badge collections of a Section, in the order it fetches them
BadgeTypes == <<T_challenge, T_activity, T_staged, T_core>>

\* the URL of Section._get_badges
BadgesUrl(badge_type, sectionid, section, termid) ==
    <<"c", "h", "a", "l", "l", "e", "n", "g", "e", "s", ".", "p", "h",
        "p", "?", "a", "c", "t", "i", "o", "n", "=", "g", "e", "t", "I",
        "n", "i", "t", "i", "a", "l", "B", "a", "d", "g", "e", "s", "&",
        "t", "y", "p", "e", "=">>
    \o badge_type \o <<"&", "s", "e", "c", "t", "i", "o", "n", "i", "d", "=">> \o Str(sectionid)
    \o <<"&", "s", "e", "c", "t", "i", "o", "n", "=">> \o Str(section)
    \o <<"&", "t", "e", "r", "m", "i", "d", "=">> \o Str(termid)

\* the URL of Section._get_members
MembersUrl(sectionid, termid, section) ==
    <<"u", "s", "e", "r", "s", ".", "p", "h", "p", "?", "&", "a", "c",
        "t", "i", "o", "n", "=", "g", "e", "t", "U", "s", "e", "r", "D",
        "e", "t", "a", "i", "l", "s", "&", "s", "e", "c", "t", "i", "o",
        "n", "i", "d", "=">>
    \o Str(sectionid) \o <<"&", "t", "e", "r", "m", "i", "d", "=">> \o Str(termid)
    \o <<"&", "d", "a", "t", "e", "F", "o", "r", "m", "a", "t", "=", "u",
        "k", "&", "s", "e", "c", "t", "i", "o", "n", "=">>
    \o Str(section)

\* Badges.__init__ on the record a fetch returned: the exception it raises.
\* details is {} in every answer of this model, so no Badge is built
Badges_init(record) ==
    IF record.t # "dict" THEN "TypeError"
    ELSE IF \E k \in {K_badgeOrder, K_details, K_stock, K_structure} :
               k \notin DOMAIN record.d
    THEN "KeyError"
    ELSE IF record.d[K_details].t # "dict" THEN "AttributeError"
    ELSE ""

\* Members.__init__ on the record a fetch returned: the exception it
\* raises, and the items it wraps as Members
Members_init(record) ==
    IF record.t # "dict" THEN [exc |-> "TypeError", items |-> <<>>]
    ELSE IF K_identifier \notin DOMAIN record.d \/ K_items \notin DOMAIN record.d
    THEN [exc |-> "KeyError", items |-> <<>>]
    ELSE IF record.d[K_items].t # "list"
    THEN [exc |-> "TypeError", items |-> <<>>]
    ELSE LET items == ListItems[record.d[K_items].n]
         IN  IF \E i \in DOMAIN items :
                   record.d[K_identifier].s \notin DOMAIN items[i]
             THEN [exc |-> "KeyError", items |-> <<>>]
             ELSE [exc |-> "", items |-> items]

\* what Section.__init__ gives: the exception it raised ("" when the
\* Section was built), whether the term list was obtained, the termids of
\* the active terms, the termid of the term it took, the gateway calls it
\* made, the cache, and the items of the roster
Built(exc, fetched, active, term, log, c, items) ==
    [exc |-> exc, fetched |-> fetched, active |-> active, term |-> term,
     log |-> log, cache |-> c, items |-> items]

\* Section.__init__ from its i-th fetch on: the four badge collections,
\* then the roster.  SectionFetched is the rest of the construction once
\* the i-th fetch gave r
RECURSIVE SectionFetches(_, _, _, _, _, _, _, _)
RECURSIVE SectionFetched(_, _, _, _, _, _, _, _)
SectionFetched(role, active, i, r, a, resps, log, items) ==
    LET b == Badges_init(r.out.result)
        m == Members_init(r.out.result)
    IN  IF r.out.outcome = "raise"
        THEN Built(r.out.exc, TRUE, active, active[1], Append(log, r),
                   r.cache, items)
        ELSE IF i <= Len(BadgeTypes)
        THEN IF b # ""
             THEN Built(b, TRUE, active, active[1], Append(log, r), r.cache,
                        items)
             ELSE SectionFetches(role, active, i + 1, r.cache, a, resps,
                                 Append(log, r), items)
        ELSE IF m.exc # ""
        THEN Built(m.exc, TRUE, active, active[1], Append(log, r), r.cache,
                   items)
        ELSE SectionFetches(role, active, i + 1, r.cache, a, resps,
                            Append(log, r), m.items)

SectionFetches(role, active, i, c, a, resps, log, items) ==
    IF i > Len(BadgeTypes) + 1
    THEN Built("", TRUE, active, active[1], log, c, items)
    ELSE
    LET sectionid == OSMObject_getitem(role, <<>>, K_sectionid)
        section == OSMObject_getitem(role, <<>>, K_section)
        url == IF i <= Len(BadgeTypes)
               THEN BadgesUrl(BadgeTypes[i], sectionid.value, section.value,
                              PyStr(active[1]))
               ELSE MembersUrl(sectionid.value, PyStr(active[1]),
                               section.value)
    IN  IF sectionid.exc # "" \/ section.exc # ""
        THEN Built("KeyError", TRUE, active, active[1], log, c, items)
        ELSE CHOOSE built \in
                 {SectionFetched(role, active, i, r, a, resps, log, items) :
                     r \in {AccessorCall(c, a, url, NoFields, FALSE, FALSE,
                                         resps[i + 1])}} : TRUE

\* Section.__init__ once the getTerms call gave r: the terms of the
\* section, those that are active, the first of them, the fetches
SectionTermsFetched(role, sectionid, now, r, a, resps) ==
    LET ts == terms(r.out.result, sectionid)
        act == SelectSeq(ts.list, LAMBDA term : is_active(term, now))
        active == [i \in DOMAIN act |-> act[i].record[K_termid].s]
    IN  IF r.out.outcome = "raise"
        THEN Built(r.out.exc, FALSE, <<>>, <<>>, <<r>>, r.cache, <<>>)
        ELSE IF ts.exc # ""
        THEN Built(ts.exc, FALSE, <<>>, <<>>, <<r>>, r.cache, <<>>)
        ELSE IF active = <<>>
        THEN Built("IndexError", TRUE, active, <<>>, <<r>>, r.cache, <<>>)
        ELSE SectionFetches(role, active, 1, r.cache, a, resps, <<r>>, <<>>)

\* Section.__init__(osm, accessor, record) at the instant now
Section_init(role, now, c, a, resps) ==
    LET sectionid == OSMObject_getitem(role, <<>>, K_sectionid)
    IN  IF sectionid.exc # ""
        THEN Built(sectionid.exc, FALSE, <<>>, <<>>, <<>>, c, <<>>)
        ELSE CHOOSE built \in
                 {SectionTermsFetched(role, sectionid.value, now, r, a,
                                      resps) :
                     r \in {AccessorCall(c, a, TERMS_QUERY, NoFields, FALSE,
                                         FALSE, resps[1])}} : TRUE

\* the instants at which a Section is built: the start of the first term,
\* the middle of its first day, the middle of the day both terms hold,
\* the end of the first term, a day past both
Nows ==
    {strptime(DAY_2), strptime(DAY_2) + 1, strptime(DAY_3) + 1,
     strptime(DAY_4), strptime(DAY_5) + 1}

R_fail == [kind |-> "fail", body |-> <<>>]

R_terms == [kind |-> "body", body |-> B_terms]

R_badges == [kind |-> "body", body |-> B_badges]

R_members == [kind |-> "body", body |-> B_members]

R_error == [kind |-> "body", body |-> B_error]

R_dict0 == [kind |-> "body", body |-> B_dict0]

\* what the network answers to the six calls of one construction: the
\* answers the service gives, and one of them replaced
SectionAnswers ==
    LET good == <<R_terms, R_badges, R_badges, R_badges, R_badges,
                  R_members>>
    IN  {good}
        \cup {[good EXCEPT ![1] = x] : x \in {R_fail, R_error, R_dict0}}
        \cup {[good EXCEPT ![2] = R_dict0], [good EXCEPT ![4] = R_error],
              [good EXCEPT ![6] = R_dict0]}

(***************************************************************************)
(* State.                                                                  *)
(***************************************************************************)
VARIABLES
    cache,        \* Accessor.__cache__, shared by every Accessor
    auth,         \* the fields of the Authorisor
    calls,        \* how many gateway calls were made
    src,          \* for each cache entry, the request that stored it
    clearedKeys,  \* keys evicted by a clear and not asked for since
    last,         \* the operation that led to this state, and its outcome:
                  \* the gateway call it made, the requests behind the
                  \* cache entries at the lookup, the holder before it
    heap,         \* the records, each a dict
    objs,         \* the wrappers: the record each wraps, its change list
    ops,          \* how many wrapper operations were made
    mlast         \* the wrapper operation that led to this state: its
                  \* outcome, the gateway calls it made, and the records
                  \* and wrappers before it

vars == <<cache, auth, calls, src, clearedKeys, last, heap, objs, ops, mlast>>

\* no gateway call
NoCall ==
    [req |-> [url |-> <<>>, values |-> <<>>, data |-> <<>>, key |-> <<>>,
              authorising |-> FALSE, clear |-> FALSE, atLookup |-> <<>>,
              evicted |-> {}],
     hit |-> FALSE, net |-> 0, resp |-> [kind |-> "none", body |-> <<>>],
     json |-> FALSE, out |-> Returned(NoneObj), cache |-> <<>>]

NoOp ==
    [op |-> "init", call |-> NoCall, srcAt |-> <<>>,
     wasCleared |-> FALSE, before |-> NewAuthorisor(APIID, TOKEN), exc |-> ""]

\* no construction of a Section
NoSection == [now |-> 0, fetched |-> FALSE, active |-> <<>>, term |-> <<>>]

\* no wrapper operation
NoMemberOp ==
    [op |-> "none", obj |-> 0, key |-> <<>>, value |-> PyNone, exc |-> "",
     ret |-> "None", log |-> <<>>, heap0 |-> <<>>, objs0 |-> <<>>,
     section |-> NoSection, prev |-> ""]

Init ==
    /\ cache = EmptyCache
    /\ auth = NewAuthorisor(APIID, TOKEN)
    /\ calls = 0
    /\ src = <<>>
    /\ clearedKeys = {}
    /\ last = NoOp
    /\ heap = <<DEFAULT_DICT, ROSTER_ITEM, SECTION_RECORD>>
    /\ objs = <<[kind |-> "OSMObject", rec |-> SectionRec, changed |-> <<>>],
                [kind |-> "Member", rec |-> RosterRec, changed |-> <<>>]>>
    /\ ops = 0
    /\ mlast = NoMemberOp

\* the bookkeeping of one gateway call r, which leaves the holder as a1 and
\* the operation with exception exc ("" when it returned)
Record(op, r, a1, exc) ==
    LET evicted == IF r.req.clear THEN DOMAIN cache ELSE {}
        src1 == [k \in DOMAIN src \ evicted |-> src[k]]
        k == r.req.key
    IN  /\ cache' = r.cache
        /\ calls' = calls + 1
        /\ src' = IF r.out.outcome = "return" /\ ~r.hit
                  THEN (k :> [url |-> r.req.url, values |-> r.req.values])
                       @@ src1
                  ELSE src1
        /\ clearedKeys' = (clearedKeys \cup evicted) \ {k}
        /\ auth' = a1
        /\ last' = [op |-> op, call |-> r, srcAt |-> src1,
                    wasCleared |-> k \in (clearedKeys \cup evicted),
                    before |-> auth, exc |-> exc]
        /\ mlast' = NoMemberOp
        /\ UNCHANGED <<heap, objs, ops>>

\* accessor(query, fields, clear_cache=clear)
Call(rq, resp) ==
    /\ calls < MaxCalls
    /\ \E r \in {AccessorCall(cache, auth, rq.query, rq.fields, FALSE,
                              rq.clear, resp)} :
          Record("call", r, auth, r.out.exc)

\* Authorisor.authorise(email, password)
Authorise(email, password, resp) ==
    /\ calls < MaxCalls
    /\ \E r \in {AccessorCall(cache, auth, AUTHORISE_QUERY,
                              Fields((K_email :> PyStr(email))
                                     @@ (K_password :> PyStr(password))),
                              TRUE, FALSE, resp)} :
          IF r.out.outcome = "raise"
          THEN Record("authorise", r, auth, r.out.exc)
          ELSE \E st \in {StoreCreds(auth, r.out.result)} :
                  Record("authorise", r, st.auth, st.exc)

\* Accessor.clear_cache() called directly
ClearCache ==
    /\ cache' = clear_cache(cache)
    /\ src' = <<>>
    /\ clearedKeys' = clearedKeys \cup DOMAIN cache
    /\ last' = [NoOp EXCEPT !.op = "clear", !.before = auth]
    /\ mlast' = NoMemberOp
    /\ UNCHANGED <<auth, calls, heap, objs, ops>>

\* Authorisor.load_from_file(src)
Load(file) ==
    /\ auth' = load_from_file(auth, file)
    /\ last' = [NoOp EXCEPT !.op = "load", !.before = auth]
    /\ mlast' = NoMemberOp
    /\ UNCHANGED <<cache, calls, src, clearedKeys, heap, objs, ops>>

Next ==
    \/ \E rq \in Requests, resp \in Responses : Call(rq, resp)
    \/ \E e \in Emails, p \in Passwords, resp \in Responses :
          Authorise(e, p, resp)
    \/ ClearCache
    \/ \E file \in Files : Load(file)

Spec == Init /\ [][Next]_vars

(***************************************************************************)
(* The wrappers' operations.                                               *)
(***************************************************************************)
\* the bookkeeping of the cache entries over the gateway calls log[i..]
RECURSIVE Bookkeeping(_, _, _, _)
Bookkeeping(log, i, s, ck) ==
    IF i > Len(log) THEN [src |-> s, clearedKeys |-> ck]
    ELSE LET r == log[i]
             k == r.req.key
             s1 == [x \in DOMAIN s \ r.req.evicted |-> s[x]]
         IN  Bookkeeping(log, i + 1,
                         IF r.out.outcome = "return" /\ ~r.hit
                         THEN (k :> [url |-> r.req.url,
                                     values |-> r.req.values]) @@ s1
                         ELSE s1,
                         (ck \cup r.req.evicted) \ {k})

\* a wrapper operation op on wrapper o that gave g and made no gateway call
Wrapped(op, o, key, value, g) ==
    /\ heap' = [heap EXCEPT ![objs[o].rec] = g.rec]
    /\ objs' = [objs EXCEPT ![o].changed = g.changed]
    /\ ops' = ops + 1
    /\ mlast' = [op |-> op, obj |-> o, key |-> key, value |-> value,
                 exc |-> g.exc, ret |-> "None", log |-> <<>>,
                 heap0 |-> heap, objs0 |-> objs,
                 section |-> NoSection, prev |-> ""]
    /\ last' = [NoOp EXCEPT !.op = "wrapper"]
    /\ UNCHANGED <<cache, auth, calls, src, clearedKeys>>

\* o[key] = value
Set(o, key, value) ==
    /\ ops < MaxOps
    /\ \E g \in {IF objs[o].kind = "Member"
                 THEN Member_setitem(heap[objs[o].rec], objs[o].changed,
                                     key, value)
                 ELSE OSMObject_setitem(heap[objs[o].rec], objs[o].changed,
                                        key, value)} :
          Wrapped("set", o, key, value, g)

\* del o[key]: Member inherits OSMObject.__delitem__
Del(o, key) ==
    /\ ops < MaxOps
    /\ \E g \in {OSMObject_delitem(heap[objs[o].rec], objs[o].changed, key)} :
          Wrapped("del", o, key, PyNone, g)

\* section.members.new_member(...)
NewMember(args) ==
    /\ ops < MaxOps
    /\ \E g \in {new_member(heap[DefaultRec], args.firstname, args.lastname,
                            args.dob, args.startedsection, args.started)} :
          /\ heap' = [heap EXCEPT ![DefaultRec] = g.rec]
          /\ objs' = Append(objs, [kind |-> "Member", rec |-> DefaultRec,
                                   changed |-> g.changed])
          /\ mlast' = [op |-> "new", obj |-> Len(objs) + 1, key |-> <<>>,
                       value |-> PyNone, exc |-> g.exc, ret |-> "None",
                       log |-> <<>>, heap0 |-> heap, objs0 |-> objs,
                 section |-> NoSection, prev |-> ""]
    /\ ops' = ops + 1
    /\ last' = [NoOp EXCEPT !.op = "wrapper"]
    /\ UNCHANGED <<cache, auth, calls, src, clearedKeys>>

\* how the operation before a save() of wrapper o ended, when it was a
\* save() of o as well: "created" (the create branch returned), "updated"
\* (the update branch returned) or "raised"; "" when it was anything else
PrevSave(o) ==
    IF mlast.op = "save" /\ mlast.obj = o
    THEN IF mlast.exc # "" THEN "raised"
         ELSE IF mlast.ret = "None" THEN "created" ELSE "updated"
    ELSE ""

\* o.save(), the network answering resps to its calls
Save(o, resps) ==
    /\ ops < MaxOps
    /\ objs[o].kind = "Member"
    /\ \E s \in {save(heap[objs[o].rec], objs[o].changed, heap[SectionRec],
                      cache, auth, resps)} :
          /\ heap' = [heap EXCEPT ![objs[o].rec] = s.rec]
          /\ objs' = [objs EXCEPT ![o].changed = s.changed]
          /\ cache' = s.cache
          /\ \E b \in {Bookkeeping(s.log, 1, src, clearedKeys)} :
                /\ src' = b.src
                /\ clearedKeys' = b.clearedKeys
          /\ mlast' = [op |-> "save", obj |-> o, key |-> <<>>,
                       value |-> PyNone, exc |-> s.exc, ret |-> s.ret,
                       log |-> s.log, heap0 |-> heap, objs0 |-> objs,
                       section |-> NoSection, prev |-> PrevSave(o)]
    /\ ops' = ops + 1
    /\ last' = [NoOp EXCEPT !.op = "wrapper"]
    /\ UNCHANGED <<auth, calls>>

MemberNext ==
    \/ \E o \in DOMAIN objs : \E kv \in SetsFor(o) : Set(o, kv[1], kv[2])
    \/ \E o \in DOMAIN objs : \E key \in DelsFor(o) : Del(o, key)
    \/ \E args \in NewMemberArgs : NewMember(args)
    \/ \E o \in DOMAIN objs : \E resps \in SaveAnswers :
          Save(o, resps)
    \/ \E rq \in MemberReads, resp \in MemberReadResponses : Call(rq, resp)

MemberSpec == Init /\ [][MemberNext]_vars

(***************************************************************************)
(* The construction of a Section.                                          *)
(***************************************************************************)
\* Section(osm, accessor, role) at the instant now, the network answering
\* resps to its calls: when it is built, the new Section wraps the role
\* and its roster wraps the items of the getUserDetails answer
NewSection(now, resps) ==
    /\ ops < MaxOps
    /\ \E b \in {Section_init(heap[SectionRec], now, cache, auth, resps)} :
          /\ heap' = IF b.exc = ""
                     THEN [heap EXCEPT ![RosterRec] = b.items[1]]
                     ELSE heap
          /\ objs' = IF b.exc = ""
                     THEN <<[kind |-> "OSMObject", rec |-> SectionRec,
                             changed |-> <<>>],
                            [kind |-> "Member", rec |-> RosterRec,
                             changed |-> <<>>]>>
                     ELSE objs
          /\ cache' = b.cache
          /\ \E k \in {Bookkeeping(b.log, 1, src, clearedKeys)} :
                /\ src' = k.src
                /\ clearedKeys' = k.clearedKeys
          /\ mlast' = [op |-> "section", obj |-> SectionObj, key |-> <<>>,
                       value |-> PyNone, exc |-> b.exc, ret |-> "None",
                       log |-> b.log, heap0 |-> heap, objs0 |-> objs,
                       section |-> [now |-> now, fetched |-> b.fetched,
                                    active |-> b.active, term |-> b.term],
                       prev |-> ""]
    /\ ops' = ops + 1
    /\ last' = [NoOp EXCEPT !.op = "wrapper"]
    /\ UNCHANGED <<auth, calls>>

SectionNext ==
    \/ \E now \in Nows, resps \in SectionAnswers : NewSection(now, resps)
    \/ \E kv \in SectionSets : Set(SectionObj, kv[1], kv[2])
    \/ \E key \in DelsFor(SectionObj) : Del(SectionObj, key)
    \/ ClearCache

SectionSpec == Init /\ [][SectionNext]_vars

(***************************************************************************)
(* Vocabulary of the properties.                                           *)
(***************************************************************************)
\* the last operation was a gateway call (direct, or made by authorise)
IsCall == last.op \in {"call", "authorise"}

\* the request of the last gateway call
Req == last.call.req

\* its outcome
Out == last.call.out

\* the last gateway call went to the network
WentToNetwork == IsCall /\ ~last.call.hit

\* at the lookup, the cache held an entry stored by a request with the same
\* endpoint and the same parameter set as the last call's
SameRequestMemoized ==
    /\ IsCall
    /\ Req.key \in DOMAIN last.srcAt
    /\ last.srcAt[Req.key].url = Req.url
    /\ last.srcAt[Req.key].values = Req.values

\* the decoded body of the last response
Decoded == json_loads(last.call.resp.body)

\* the last call went to the network and got a body that decodes to a JSON
\* object with an error or err field
ErrorResponse ==
    /\ WentToNetwork
    /\ last.call.resp.kind = "body"
    /\ last.call.json
    /\ Decoded.ok
    /\ Decoded.obj.t = "dict"
    /\ {K_error, K_err} \cap DOMAIN Decoded.obj.d # {}

\* the last call went to the network and got a non-empty body that does not
\* start like JSON
NonJsonResponse ==
    /\ WentToNetwork
    /\ last.call.resp.kind = "body"
    /\ Len(last.call.resp.body) > 0
    /\ last.call.resp.body[1] \notin {"{", "["}

\* the last call went to the network and got an empty body
EmptyResponse ==
    /\ WentToNetwork
    /\ last.call.resp.kind = "body"
    /\ last.call.resp.body = <<>>

\* the last call went to the network and the transport failed
TransportFailed == WentToNetwork /\ last.call.resp.kind = "fail"

(***************************************************************************)
(* C1.  Two calls with the same endpoint and parameter set, no clear in    *)
(* between, the first successful: the second makes no network call and     *)
(* returns the memoized value, whatever that value is ({} and [] too).     *)
(* The code tests `if not obj`, so a memoized {} or [] is fetched again.   *)
(***************************************************************************)
C1_SecondCallMemoized ==
    SameRequestMemoized =>
        /\ last.call.net = 0
        /\ Out.outcome = "return"
        /\ Out.result = Req.atLookup[Req.key]

(***************************************************************************)
(* C2.  After a clear (clear_cache() or clear_cache=True), the first call  *)
(* for a key the clear evicted makes exactly one network call.             *)
(***************************************************************************)
C2_OneCallAfterClear == (IsCall /\ last.wasCleared) => last.call.net = 1

\* a call repeated after Accessor.clear_cache() evicted its entry
C2_Witness ==
    /\ IsCall
    /\ last.wasCleared
    /\ ~Req.clear
    /\ last.call.net = 1

(***************************************************************************)
(* C3, as claimed.  A call resolves to an existing cache entry if and only *)
(* if its endpoint and parameter set equal those of the request that       *)
(* stored the entry.                                                       *)
(***************************************************************************)
C3_SameEntryIffEqualParams ==
    IsCall =>
        \A k \in DOMAIN last.srcAt :
            (k = Req.key) <=> /\ last.srcAt[k].url = Req.url
                              /\ last.srcAt[k].values = Req.values

(***************************************************************************)
(* C3, amended.  A call resolves to an existing cache entry if and only if *)
(* its endpoint and the URL-encoded text of its parameter set equal those  *)
(* of the request that stored the entry; a hit returns that entry's value. *)
(***************************************************************************)
C3_SameEntryIffEqualEncoding ==
    IsCall =>
        /\ \A k \in DOMAIN last.srcAt :
              (k = Req.key) <=> /\ last.srcAt[k].url = Req.url
                                /\ urlencode(last.srcAt[k].values) = Req.data
        /\ last.call.hit => /\ Req.key \in DOMAIN Req.atLookup
                            /\ Out.result = Req.atLookup[Req.key]

\* a hit on an entry stored for a different parameter set with the same
\* encoding
C3_Witness ==
    /\ IsCall
    /\ last.call.hit
    /\ Req.key \in DOMAIN last.srcAt
    /\ last.srcAt[Req.key].values # Req.values

(***************************************************************************)
(* C4.  On a miss, a body that decodes to an object with an error or err   *)
(* field makes the call raise OSMException carrying the endpoint, the      *)
(* parameter set and the field's value (error before err), and the cache   *)
(* stays as the lookup found it.                                           *)
(***************************************************************************)
C4_ServiceErrorNotCached ==
    ErrorResponse =>
        /\ Out.outcome = "raise"
        /\ Out.exc = "OSMException"
        /\ Out.excUrl = Req.url
        /\ Out.excValues = Req.values
        /\ Out.payload = IF K_error \in DOMAIN Decoded.obj.d
                         THEN Decoded.obj.d[K_error]
                         ELSE Decoded.obj.d[K_err]
        /\ cache = Req.atLookup

\* an err response arriving while the cache holds an entry
C4_Witness ==
    /\ ErrorResponse
    /\ K_error \notin DOMAIN Decoded.obj.d
    /\ Out.exc = "OSMException"
    /\ Req.atLookup # EmptyCache

(***************************************************************************)
(* C5.  On a miss, a non-empty body whose first character is neither { nor *)
(* [ makes the call raise OSMException carrying the endpoint, the          *)
(* parameter set and the raw body; json.loads is not run; nothing is       *)
(* cached.                                                                 *)
(***************************************************************************)
C5_NonJsonBodyRaises ==
    NonJsonResponse =>
        /\ Out.outcome = "raise"
        /\ Out.exc = "OSMException"
        /\ Out.excUrl = Req.url
        /\ Out.excValues = Req.values
        /\ Out.payload = PyStr(last.call.resp.body)
        /\ ~last.call.json
        /\ cache = Req.atLookup

\* a plain-text body arriving while the cache holds an entry
C5_Witness ==
    /\ NonJsonResponse
    /\ Out.exc = "OSMException"
    /\ Req.atLookup # EmptyCache

C8_FieldsNeverOverrideIdentity ==
    IsCall =>
        /\ Req.values[K_apiid] = last.before.apiid
        /\ Req.values[K_token] = last.before.token
        /\ ~Req.authorising =>
              /\ Req.values[K_userid] = last.before.userid
              /\ Req.values[K_secret] = last.before.secret

(***************************************************************************)
(* C9.  An authorising call is never answered from the cache and never     *)
(* adds an entry to it, so every authorise() makes one network call.  The  *)
(* code looks up and memoizes an authorising call like any other.          *)
(***************************************************************************)
C9_AuthorisingNotMemoized ==
    (IsCall /\ Req.authorising) =>
        /\ ~last.call.hit
        /\ last.call.net = 1
        /\ cache = Req.atLookup

(***************************************************************************)
(* C10.  userid and secret are both unset until an authorise() or a load   *)
(* succeeds; a failed authorise() leaves them as they were; once both are  *)
(* set every non-authorising request carries them, and an authorising      *)
(* request carries neither.  The code stores userid before it reads        *)
(* secret, and lets the caller's fields replace userid and secret.         *)
(***************************************************************************)
C10_CredentialInvariant ==
    /\ (auth.userid = PyNone) <=> (auth.secret = PyNone)
    /\ auth # last.before =>
          \/ last.op = "load"
          \/ last.op = "authorise" /\ last.exc = ""
    /\ (last.op = "authorise" /\ last.exc # "") => auth = last.before
    /\ (IsCall /\ ~Req.authorising
          /\ last.before.userid # PyNone /\ last.before.secret # PyNone) =>
          /\ Req.values[K_userid] = last.before.userid
          /\ Req.values[K_secret] = last.before.secret
    /\ (IsCall /\ Req.authorising) =>
          /\ K_userid \notin DOMAIN Req.values
          /\ K_secret \notin DOMAIN Req.values


(***************************************************************************)
(* Vocabulary of the properties of the wrappers.                           *)
(***************************************************************************)
\* the wrapper the last wrapper operation was made on, before and after it
W0 == mlast.objs0[mlast.obj]

W1 == objs[mlast.obj]

\* its record before and after the operation
Rec0 == mlast.heap0[W0.rec]

Rec1 == heap[W1.rec]

\* the last operation was this one, on a wrapper of this kind
WasOn(op, kind) == mlast.op = op /\ W0.kind = kind

\* the record and the change list of every wrapper are as before
NothingChanged == heap = mlast.heap0 /\ objs = mlast.objs0

\* key names no field of the record, literally or as a display name
Unknown(rec, key) ==
    /\ key \notin DOMAIN rec
    /\ key \in DOMAIN reverse_column_map
          => reverse_column_map[key] \notin DOMAIN rec

\* the gateway calls the last save() made
Log == mlast.log

\* the last operation was a save() of a member whose scoutid was empty
SavedEmptyScoutid ==
    /\ WasOn("save", "Member")
    /\ Member_getitem(Rec0, W0.changed, K_scoutid).exc = ""
    /\ Member_getitem(Rec0, W0.changed, K_scoutid).value = PyStr(<<>>)

\* ... of a member whose scoutid was not empty
SavedWithScoutid ==
    /\ WasOn("save", "Member")
    /\ Member_getitem(Rec0, W0.changed, K_scoutid).exc = ""
    /\ Member_getitem(Rec0, W0.changed, K_scoutid).value # PyStr(<<>>)

\* the parameters every call of this model's Accessor carries
IdentityKeys == {K_apiid, K_token, K_userid, K_secret}

(***************************************************************************)
(* C11.  As stated: every call save() makes and every call with            *)
(* clear_cache=True evicts all entries first, so that after it a read of   *)
(* any endpoint that was cached before it goes to the network: no key the  *)
(* call evicted is a key of the cache after it.                            *)
(***************************************************************************)
C11_NoEvictedEndpointCached ==
    /\ (IsCall /\ Req.clear) => Req.evicted \cap DOMAIN cache = {}
    /\ mlast.op = "save" =>
          \A i \in DOMAIN Log :
             /\ Log[i].req.clear
             /\ Log[i].req.evicted \cap DOMAIN Log[i].cache = {}

(***************************************************************************)
(* C11, amended.  Every call save() makes is made with clear_cache=True,   *)
(* and every such call finds the cache empty at its lookup and goes to     *)
(* the network; after it the cache holds no entry but the one the call     *)
(* itself memoized under its own request; and a read of a key that was     *)
(* evicted and not asked for since goes to the network.                    *)
(***************************************************************************)
C11_MutatingCallEvictsAllButItsOwn ==
    /\ (IsCall /\ Req.clear) =>
          /\ Req.atLookup = EmptyCache
          /\ WentToNetwork
          /\ DOMAIN cache \subseteq {Req.key}
          /\ Req.key \in DOMAIN cache => Out.outcome = "return"
    /\ mlast.op = "save" =>
          \A i \in DOMAIN Log :
             /\ Log[i].req.clear
             /\ Log[i].req.atLookup = EmptyCache
             /\ Log[i].net = 1
             /\ DOMAIN Log[i].cache \subseteq {Log[i].req.key}
             /\ Log[i].req.key \in DOMAIN Log[i].cache
                   => Log[i].out.outcome = "return"
    /\ (IsCall /\ last.wasCleared) => WentToNetwork

\* a save() made a call that evicted entries and memoized its own answer
C11_Witness ==
    /\ mlast.op = "save"
    /\ Len(Log) >= 1
    /\ Log[1].req.evicted # {}
    /\ Log[1].req.key \in DOMAIN cache


(***************************************************************************)
(* C12.  An assignment through an OSMObject to a key its record does not   *)
(* hold raises KeyError and leaves every record as it was.                 *)
(***************************************************************************)
C12_SetMissingKeyRaises ==
    (WasOn("set", "OSMObject") /\ mlast.key \notin DOMAIN Rec0) =>
        /\ mlast.exc = "KeyError"
        /\ NothingChanged

(***************************************************************************)
(* C13.  Through a Member, a storage key and its display name always read  *)
(* the same value: after an assignment under either name, a read under     *)
(* the other gives the value assigned.                                     *)
(***************************************************************************)
C13_BothNamesReadTheSameValue ==
    \A o \in DOMAIN objs : \A k \in DOMAIN column_map :
        objs[o].kind = "Member" =>
            LET rec == heap[objs[o].rec]
                byKey == Member_getitem(rec, objs[o].changed, k)
                byName == Member_getitem(rec, objs[o].changed, column_map[k])
            IN  byKey.exc = byName.exc /\ byKey.value = byName.value

(***************************************************************************)
(* C14.  A Member's read of a key that is neither a field nor a display    *)
(* name raises KeyError, and so does its assignment, which leaves the      *)
(* record and the change list as they were; an OSMObject's read and        *)
(* deletion of a key its record does not hold raise KeyError and leave     *)
(* the record as it was.                                                   *)
(***************************************************************************)
C14_UnknownKeyRaises ==
    /\ \A o \in DOMAIN objs :
          LET rec == heap[objs[o].rec]
          IN  IF objs[o].kind = "Member"
              THEN Unknown(rec, K_zz) =>
                      Member_getitem(rec, objs[o].changed, K_zz)
                          = Gave("KeyError", PyNone, rec, objs[o].changed)
              ELSE K_zz \notin DOMAIN rec =>
                      OSMObject_getitem(rec, objs[o].changed, K_zz)
                          = Gave("KeyError", PyNone, rec, objs[o].changed)
    /\ (WasOn("del", "OSMObject") /\ mlast.key \notin DOMAIN Rec0) =>
          mlast.exc = "KeyError" /\ NothingChanged
    /\ (WasOn("set", "Member") /\ Unknown(Rec0, mlast.key)) =>
          mlast.exc = "KeyError" /\ NothingChanged

(***************************************************************************)
(* C15.  A Member's change list holds no key twice, grows at its end, and  *)
(* holds storage keys only: an assignment under a display name records     *)
(* the storage key the name stands for.                                    *)
(***************************************************************************)
C15_ChangeListHoldsStorageKeys ==
    /\ \A o \in DOMAIN objs :
          LET ch == objs[o].changed
          IN  /\ \A i, j \in DOMAIN ch : ch[i] = ch[j] => i = j
              /\ \A i \in DOMAIN ch : ch[i] \notin DOMAIN reverse_column_map
    /\ (WasOn("set", "Member") /\ mlast.exc = "") =>
          /\ SubSeq(W1.changed, 1, Len(W0.changed)) = W0.changed
          /\ InList(IF mlast.key \in DOMAIN reverse_column_map
                    THEN reverse_column_map[mlast.key] ELSE mlast.key,
                    W1.changed)

(***************************************************************************)
(* C16.  save() of a member whose scoutid is empty, in a section that      *)
(* holds its sectionid, makes exactly one gateway call, the newMember      *)
(* call, whose fields are the changed fields and the sectionid; when the   *)
(* call returns a scoutid the member holds it afterwards.                  *)
(***************************************************************************)
C16_CreateMakesOneCall ==
    (SavedEmptyScoutid /\ K_sectionid \in DOMAIN mlast.heap0[SectionRec]) =>
        /\ Len(Log) = 1
        /\ Log[1].req.url = BASE_URL \o CREATE_QUERY
        /\ LET v == Log[1].req.values
               ch == {W0.changed[i] : i \in DOMAIN W0.changed}
           IN  /\ DOMAIN v \subseteq IdentityKeys \cup ch \cup {K_sectionid}
               /\ ch \cup {K_sectionid} \subseteq DOMAIN v
               /\ v[K_sectionid] = mlast.heap0[SectionRec][K_sectionid]
               /\ \A k \in ch \ {K_sectionid} : v[k] = Rec0[k]
        /\ (Log[1].out.outcome = "return"
              /\ Subscript(Log[1].out.result, K_scoutid).exc = "") =>
              /\ mlast.exc = ""
              /\ Member_getitem(Rec1, W1.changed, K_scoutid).value
                    = Log[1].out.result.d[K_scoutid]

(***************************************************************************)
(* C17.  save() of a member whose scoutid is not empty makes one           *)
(* updateMember call for each changed field, whether the field was         *)
(* assigned under its storage key or under its display name: when every    *)
(* call it makes is answered with the column, it makes as many calls as    *)
(* there are changed fields, raises nothing, and returns True exactly      *)
(* when every answer echoes the value sent.                                *)
(***************************************************************************)
C17_UpdateMakesOneCallPerField ==
    (/\ SavedWithScoutid
     /\ K_sectionid \in DOMAIN mlast.heap0[SectionRec]
     /\ \A i \in DOMAIN W0.changed : W0.changed[i] \in DOMAIN Rec0
     /\ \A i \in DOMAIN Log :
           /\ Log[i].out.outcome = "return"
           /\ Subscript(Log[i].out.result,
                        Log[i].req.values[K_column].s).exc = "") =>
        /\ Len(Log) = Len(W0.changed)
        /\ \A i \in DOMAIN Log : Log[i].req.url = BASE_URL \o UPDATE_QUERY
        /\ mlast.exc = ""
        /\ mlast.ret = "True" <=>
              \A i \in DOMAIN Log :
                 Log[i].out.result.d[Log[i].req.values[K_column].s]
                    = Log[i].req.values[K_value]


(***************************************************************************)
(* C19.  No two Member wrappers share a record: an assignment, a           *)
(* deletion or a new_member() leaves the record of every other Member as   *)
(* it was, two members of successive new_member() calls included.          *)
(***************************************************************************)
C19_MembersShareNoRecord ==
    /\ \A o, p \in DOMAIN objs :
          (o # p /\ objs[o].kind = "Member" /\ objs[p].kind = "Member")
              => objs[o].rec # objs[p].rec
    /\ mlast.op \in {"set", "del", "new"} =>
          \A p \in DOMAIN mlast.objs0 :
             (p # mlast.obj /\ mlast.objs0[p].kind = "Member")
                 => heap[objs[p].rec] = mlast.heap0[mlast.objs0[p].rec]

(***************************************************************************)
(* C20.  The member new_member() returns has an empty scoutid, whatever    *)
(* new_member() and save() calls came before.                              *)
(***************************************************************************)
C20_NewMemberHasEmptyScoutid ==
    mlast.op = "new" =>
        Member_getitem(Rec1, W1.changed, K_scoutid)
            = Gave("", PyStr(<<>>), Rec1, W1.changed)


(***************************************************************************)
(* C18.  The construction of a Section whose terms hold no active term,    *)
(* or more than one, raises ConfigurationError: it builds no Section and   *)
(* makes no call after the one that fetched the terms.                     *)
(***************************************************************************)
C18_OneActiveTermOrConfigurationError ==
    (/\ mlast.op = "section"
     /\ mlast.section.fetched
     /\ Len(mlast.section.active) # 1) =>
        /\ mlast.exc = "ConfigurationError"
        /\ Len(Log) = 1
        /\ NothingChanged


(***************************************************************************)
(* C21.  A term is active exactly when its start is strictly before now    *)
(* and its end strictly after: of the terms the service listed, the ones   *)
(* a construction finds active are those with start < now < end, so a      *)
(* term that starts or ends at the very instant now is not among them.     *)
(***************************************************************************)
C21_ActiveExactlyStrictlyInside ==
    (mlast.op = "section" /\ mlast.section.fetched) =>
        \A i \in DOMAIN ListItems[1] :
           LET record == ListItems[1][i]
               start == strptime(record[K_startdate].s)
               end == strptime(record[K_enddate].s)
               now == mlast.section.now
           IN  /\ InList(record[K_termid].s, mlast.section.active)
                     <=> (start < now /\ now < end)
               /\ (now = start \/ now = end)
                     => ~InList(record[K_termid].s, mlast.section.active)

\* a construction at the instant the first term ends, the second being
\* under way: the second term alone is active
C21_Witness ==
    /\ mlast.op = "section"
    /\ mlast.section.fetched
    /\ mlast.section.now = strptime(DAY_4)
    /\ mlast.section.active = << <<"2">> >>


(***************************************************************************)
(* C22.  The construction of a Section makes its calls in a fixed order:   *)
(* the terms first, then, once a term is taken, the badge collections      *)
(* challenge, activity, staged, core, then the roster, one call each,      *)
(* the URL of each built from the sectionid, the section's short code and  *)
(* the termid of the term taken; a construction that ends without an      *)
(* exception has made all six.                                             *)
(***************************************************************************)
\* the queries of the construction of the section with sectionid 3 and
\* short code c, in the term termid
FetchesOf(termid) ==
    << <<"a", "p", "i", ".", "p", "h", "p", "?", "a", "c", "t", "i",
         "o", "n", "=", "g", "e", "t", "T", "e", "r", "m", "s">>,
       <<"c", "h", "a", "l", "l", "e", "n", "g", "e", "s", ".", "p",
         "h", "p", "?", "a", "c", "t", "i", "o", "n", "=", "g", "e", "t",
         "I", "n", "i", "t", "i", "a", "l", "B", "a", "d", "g", "e", "s",
         "&", "t", "y", "p", "e", "=", "c", "h", "a", "l", "l", "e", "n",
         "g", "e", "&", "s", "e", "c", "t", "i", "o", "n", "i", "d", "=",
         "3", "&", "s", "e", "c", "t", "i", "o", "n", "=", "c", "&", "t",
         "e", "r", "m", "i", "d", "=">>
          \o termid,
       <<"c", "h", "a", "l", "l", "e", "n", "g", "e", "s", ".", "p",
         "h", "p", "?", "a", "c", "t", "i", "o", "n", "=", "g", "e", "t",
         "I", "n", "i", "t", "i", "a", "l", "B", "a", "d", "g", "e", "s",
         "&", "t", "y", "p", "e", "=", "a", "c", "t", "i", "v", "i", "t",
         "y", "&", "s", "e", "c", "t", "i", "o", "n", "i", "d", "=", "3",
         "&", "s", "e", "c", "t", "i", "o", "n", "=", "c", "&", "t", "e",
         "r", "m", "i", "d", "=">>
          \o termid,
       <<"c", "h", "a", "l", "l", "e", "n", "g", "e", "s", ".", "p",
         "h", "p", "?", "a", "c", "t", "i", "o", "n", "=", "g", "e", "t",
         "I", "n", "i", "t", "i", "a", "l", "B", "a", "d", "g", "e", "s",
         "&", "t", "y", "p", "e", "=", "s", "t", "a", "g", "e", "d", "&",
         "s", "e", "c", "t", "i", "o", "n", "i", "d", "=", "3", "&", "s",
         "e", "c", "t", "i", "o", "n", "=", "c", "&", "t", "e", "r", "m",
         "i", "d", "=">>
          \o termid,
       <<"c", "h", "a", "l", "l", "e", "n", "g", "e", "s", ".", "p",
         "h", "p", "?", "a", "c", "t", "i", "o", "n", "=", "g", "e", "t",
         "I", "n", "i", "t", "i", "a", "l", "B", "a", "d", "g", "e", "s",
         "&", "t", "y", "p", "e", "=", "c", "o", "r", "e", "&", "s", "e",
         "c", "t", "i", "o", "n", "i", "d", "=", "3", "&", "s", "e", "c",
         "t", "i", "o", "n", "=", "c", "&", "t", "e", "r", "m", "i", "d",
         "=">>
          \o termid,
       <<"u", "s", "e", "r", "s", ".", "p", "h", "p", "?", "&", "a",
         "c", "t", "i", "o", "n", "=", "g", "e", "t", "U", "s", "e", "r",
         "D", "e", "t", "a", "i", "l", "s", "&", "s", "e", "c", "t", "i",
         "o", "n", "i", "d", "=", "3", "&", "t", "e", "r", "m", "i", "d",
         "=">>
          \o termid \o <<"&", "d", "a", "t", "e", "F", "o", "r", "m", "a", "t", "=", "u", "k",
          "&", "s", "e", "c", "t", "i", "o", "n", "=", "c">> >>

C22_FetchesInOrder ==
    mlast.op = "section" =>
        /\ Len(Log) <= 6
        /\ mlast.exc = "" => Len(Log) = 6
        /\ Len(Log) >= 2 =>
              /\ mlast.section.fetched
              /\ mlast.section.active # <<>>
              /\ mlast.section.term = mlast.section.active[1]
        /\ \A i \in DOMAIN Log :
              /\ Log[i].req.url
                    = BASE_URL \o FetchesOf(mlast.section.term)[i]
              /\ ~Log[i].req.clear

\* a Section was built in its one active term, after six calls
C22_Witness ==
    /\ mlast.op = "section"
    /\ mlast.exc = ""
    /\ Len(mlast.section.active) = 1
    /\ Len(Log) = 6


(***************************************************************************)
(* C23.  As stated: after a call with clear_cache=True that returned, the  *)
(* cache holds exactly one entry, the answer of that call; and after a     *)
(* save() that made at least one call, the cache holds exactly the answer  *)
(* of the last call it made.                                               *)
(***************************************************************************)
C23_CacheHoldsTheLastCall ==
    /\ (IsCall /\ Req.clear /\ Out.outcome = "return") =>
          /\ DOMAIN cache = {Req.key}
          /\ cache[Req.key] = Out.result
    /\ (mlast.op = "save" /\ Len(Log) >= 1) =>
          /\ DOMAIN cache = {Log[Len(Log)].req.key}
          /\ Log[Len(Log)].out.outcome = "return"
          /\ cache[Log[Len(Log)].req.key] = Log[Len(Log)].out.result

(***************************************************************************)
(* C23, amended.  After a call with clear_cache=True that returned, the    *)
(* cache holds exactly one entry, the answer of that call.  After a        *)
(* save() that made at least one call, the cache holds exactly the answer  *)
(* of the last call it made when that call returned, and is empty when     *)
(* that call raised.                                                       *)
(***************************************************************************)
C23_CacheHoldsTheLastCallThatReturned ==
    /\ (IsCall /\ Req.clear /\ Out.outcome = "return") =>
          /\ DOMAIN cache = {Req.key}
          /\ cache[Req.key] = Out.result
    /\ (mlast.op = "save" /\ Len(Log) >= 1) =>
          IF Log[Len(Log)].out.outcome = "return"
          THEN /\ DOMAIN cache = {Log[Len(Log)].req.key}
               /\ cache[Log[Len(Log)].req.key] = Log[Len(Log)].out.result
          ELSE DOMAIN cache = {}

\* a save() made two calls that returned, and the cache holds the second
C23_Witness ==
    /\ mlast.op = "save"
    /\ Len(Log) = 2
    /\ Log[1].out.outcome = "return"
    /\ Log[2].out.outcome = "return"
    /\ Log[1].req.key # Log[2].req.key
    /\ DOMAIN cache = {Log[2].req.key}


(***************************************************************************)
(* C24.  A Member's change list only grows: no assignment, deletion,       *)
(* new_member() or save() removes a key from the change list of any        *)
(* wrapper; a save() that created the member leaves 'scoutid' in it; and   *)
(* a save() that follows a save() of the same member that returned, with   *)
(* nothing in between, submits the changed keys again: it makes a call,    *)
(* and when every call it makes is answered with the column, it makes one  *)
(* for each key of the change list.                                        *)
(***************************************************************************)
C24_ChangeListGrowsAndIsResubmitted ==
    /\ mlast.op \in {"set", "del", "new", "save"} =>
          \A p \in DOMAIN mlast.objs0 :
             /\ Len(mlast.objs0[p].changed) <= Len(objs[p].changed)
             /\ SubSeq(objs[p].changed, 1, Len(mlast.objs0[p].changed))
                   = mlast.objs0[p].changed
    /\ (SavedEmptyScoutid /\ mlast.exc = "") =>
          /\ InList(K_scoutid, W1.changed)
          /\ ~InList(K_scoutid, W0.changed)
                => W1.changed = Append(W0.changed, K_scoutid)
    /\ (/\ mlast.op = "save"
        /\ mlast.prev \in {"created", "updated"}
        /\ W0.changed # <<>>) =>
          /\ Len(Log) >= 1
          /\ (\A i \in DOMAIN Log :
                 /\ Log[i].out.outcome = "return"
                 /\ Subscript(Log[i].out.result,
                              Log[i].req.values[K_column].s).exc = "")
                => Len(Log) = Len(W0.changed)


(***************************************************************************)
(* C25.  Every key of a Member's change list is a key of its record,       *)
(* whatever assignments and deletions were made.                           *)
(***************************************************************************)
C25_ChangedKeysAreRecordKeys ==
    \A o \in DOMAIN objs :
        objs[o].kind = "Member" =>
            \A i \in DOMAIN objs[o].changed :
                objs[o].changed[i] \in DOMAIN heap[objs[o].rec]

=============================================================================
